---- MODULE Spec2Model ----
(***************************************************************************)
(* Model of frontend/src/App.tsx (the transcription page variant, lines    *)
(* 298-778): the Cognito PKCE auth gate (App) and the audio upload form    *)
(* (DefaultApp).                                                           *)
(*                                                                         *)
(* Granularity.  The UI is single threaded.  One action is one task of the *)
(* event loop: an event handler, or the continuation of an async function  *)
(* after an await on I/O (fetch, response.json(), crypto.subtle.digest),   *)
(* together with the promise callbacks (.then/.catch/.finally) that run as *)
(* microtasks right after it and the React re-render that follows.         *)
(*                                                                         *)
(* Strings the code inspects character by character (verifier, challenge,  *)
(* language hint) are sequences of one-character strings.  A storage area  *)
(* or a URL query is a function from the keys that are present to values.  *)
(***************************************************************************)
EXTENDS Integers, Sequences, FiniteSets, TLC

VARIABLES
  config,          \* AuthConfig, read once at startup (getAuthConfig)
  localStorage,    \* durable storage: key -> token string
  sessionStorage,  \* session storage: key -> verifier (sequence of chars)
  page,            \* "unloaded" | "loaded"
  search,          \* window.location.search: key -> value
  authed,          \* App state: authed
  authError,       \* App state: authError
  exchange,        \* position of exchangeCodeForTokens: idle/fetch/json/resolved/rejected
  tokenRequests,   \* requests to /oauth2/token issued and not yet answered
  loginCalls,      \* buildLoginUrl calls suspended at the digest await
  navTarget,       \* <<url>> once window.location.assign(url) was called, else <<>>
  formGen,         \* number of DefaultApp instances mounted in this page so far
  file,            \* DefaultApp state: file
  language,        \* DefaultApp state: language
  isSubmitting,    \* DefaultApp state: isSubmitting
  error,           \* DefaultApp state: error
  result,          \* DefaultApp state: result
  requests,        \* transcription requests in flight
  resetSinceSubmit,\* history: handleReset ran after the last accepted submit
  previewUrl,      \* DefaultApp state: previewUrl, <<>> for ''
  objectUrls,      \* object URLs of the document created and not yet revoked
  userLabel        \* App state: userLabel

authVars == <<config, localStorage, sessionStorage, page, search, authed,
              authError, exchange, tokenRequests, loginCalls, navTarget,
              userLabel>>
formVars == <<formGen, file, language, isSubmitting, error, result, requests,
              resetSinceSubmit, previewUrl, objectUrls>>
vars == <<config, localStorage, sessionStorage, page, search, authed,
          authError, exchange, tokenRequests, loginCalls, navTarget,
          formGen, file, language, isSubmitting, error, result, requests,
          resetSinceSubmit, previewUrl, objectUrls, userLabel>>

----------------------------------------------------------------------------
(* Bounds *)

VerifierBytes == 1     \* random bytes per verifier (the code uses 64)
DigestLen == 2         \* bytes of the stand-in digest (SHA-256 has 32)
MaxLoginCalls == 2     \* buildLoginUrl calls suspended at once
MaxRequests == 2       \* transcription requests in flight at once
MaxObjectUrls == 2     \* object URLs alive at once
MaxClaims == 2         \* claims of an ID token payload, when not all six

\* byte values drawn by crypto.getRandomValues: 251 and 255 encode to the
\* characters + and / that base64UrlEncode rewrites
ByteChoices == {251, 255}

----------------------------------------------------------------------------
(* Values *)

NULL == "<null>"       \* JavaScript null / undefined
Truthy(v) == v # NULL /\ v # ""

CODE_VERIFIER_KEY == "cognito_pkce_verifier"

\* Storage and URLSearchParams
getItem(store, k) == IF k \in DOMAIN store THEN store[k] ELSE NULL
hasItem(store, k) == k \in DOMAIN store
setItem(store, k, v) ==
  [x \in DOMAIN store \cup {k} |-> IF x = k THEN v ELSE store[x]]
removeItem(store, k) == [x \in DOMAIN store \ {k} |-> store[x]]
EmptyStore == [x \in {} |-> NULL]

\* a domain is a sequence of URL parts; one that starts with 'http' has the
\* scheme as its first part
getAuthConfig(domain, clientId) ==
  [domain |-> domain, clientId |-> clientId,
   redirectUri |-> "https://app.example.com/callback",
   logoutUri |-> "https://app.example.com/bye",
   scope |-> "openid email profile"]

\* the builds considered: with and without scheme in the domain, without
\* domain, without client id
Configs ==
  {getAuthConfig(<<"auth.example.com">>, "client1"),
   getAuthConfig(<<"https://", "auth.example.com">>, "client1"),
   getAuthConfig(<<>>, "client1"),
   getAuthConfig(<<"auth.example.com">>, "")}

isAuthenticated(store) ==
  Truthy(getItem(store, "cognito_id_token"))
    \/ Truthy(getItem(store, "cognito_access_token"))

\* config.domain.startsWith('http') ? config.domain : `https://${config.domain}`
buildHostedUrl(cfg, path) ==
  LET base == IF cfg.domain # <<>> /\ Head(cfg.domain) \in {"http://", "https://"}
              THEN cfg.domain
              ELSE <<"https://">> \o cfg.domain
  IN [base |-> base, path |-> path]

buildLogoutUrl(cfg) ==
  LET u == buildHostedUrl(cfg, "/logout")
  IN [base |-> u.base, path |-> u.path,
      params |-> [client_id |-> cfg.clientId, logout_uri |-> cfg.logoutUri]]

----------------------------------------------------------------------------
(* base64url and the PKCE pair *)

B64Alphabet ==
  <<"A","B","C","D","E","F","G","H","I","J","K","L","M","N","O","P","Q","R",
    "S","T","U","V","W","X","Y","Z","a","b","c","d","e","f","g","h","i","j",
    "k","l","m","n","o","p","q","r","s","t","u","v","w","x","y","z","0","1",
    "2","3","4","5","6","7","8","9","+","/">>

B64Char(n) == B64Alphabet[n + 1]

RECURSIVE btoa(_)
btoa(b) ==
  IF Len(b) = 0 THEN <<>>
  ELSE IF Len(b) = 1 THEN
    <<B64Char(b[1] \div 4), B64Char((b[1] % 4) * 16), "=", "=">>
  ELSE IF Len(b) = 2 THEN
    <<B64Char(b[1] \div 4), B64Char((b[1] % 4) * 16 + b[2] \div 16),
      B64Char((b[2] % 16) * 4), "=">>
  ELSE
    <<B64Char(b[1] \div 4), B64Char((b[1] % 4) * 16 + b[2] \div 16),
      B64Char((b[2] % 16) * 4 + b[3] \div 64), B64Char(b[3] % 64)>>
      \o btoa(SubSeq(b, 4, Len(b)))

\* s.replace(/from/g, to) for a one-character pattern
replaceAll(s, from, to) == [i \in 1..Len(s) |-> IF s[i] = from THEN to ELSE s[i]]

\* s.replace(/=+$/, '')
RECURSIVE stripTrailingEq(_)
stripTrailingEq(s) ==
  IF Len(s) > 0 /\ s[Len(s)] = "="
  THEN stripTrailingEq(SubSeq(s, 1, Len(s) - 1))
  ELSE s

base64UrlEncode(bytes) ==
  stripTrailingEq(replaceAll(replaceAll(btoa(bytes), "+", "-"), "/", "_"))

\* new TextEncoder().encode(s) for the characters of the base64url alphabet
charCode(c) ==
  CASE c = "-" -> 45
    [] c = "_" -> 95
    [] c = "=" -> 61
    [] c = "+" -> 43
    [] c = "/" -> 47
    [] OTHER ->
         LET i == CHOOSE k \in 1..64 : B64Alphabet[k] = c
         IN IF i <= 26 THEN 64 + i
            ELSE IF i <= 52 THEN 96 + (i - 26)
            ELSE 48 + (i - 53)

textEncode(s) == [i \in 1..Len(s) |-> charCode(s[i])]

RECURSIVE weightedSum(_, _, _)
weightedSum(data, i, j) ==
  IF j > Len(data) THEN 0
  ELSE data[j] * (i + j) + weightedSum(data, i, j + 1)

\* crypto.subtle.digest('SHA-256', data): a platform primitive, stood in for
\* by a deterministic digest of DigestLen bytes
SHA256(data) == [i \in 1..DigestLen |-> (weightedSum(data, i, 1) + 7 * i) % 256]

\* the outcomes of crypto.getRandomValues considered: one byte value repeated
RandomBytes == {[i \in 1..VerifierBytes |-> b] : b \in ByteChoices}

randomVerifier(bytes) == base64UrlEncode(bytes)

\* as createCodeChallenge, encoding the verifier itself
createCodeChallenge_noDigest(verifier) == base64UrlEncode(textEncode(verifier))

createCodeChallenge(verifier) == base64UrlEncode(SHA256(textEncode(verifier)))

Verifiers == {randomVerifier(b) : b \in RandomBytes}

\* the URL buildLoginUrl returns for a verifier whose digest has resolved
loginUrl(cfg, codeVerifier) ==
  LET u == buildHostedUrl(cfg, "/oauth2/authorize")
  IN [base |-> u.base, path |-> u.path,
      params |-> [client_id |-> cfg.clientId,
                  response_type |-> "code",
                  scope |-> cfg.scope,
                  redirect_uri |-> cfg.redirectUri,
                  code_challenge |-> createCodeChallenge(codeVerifier),
                  code_challenge_method |-> "S256"]]

----------------------------------------------------------------------------
(* The ID token and the user label *)

\* The strings of this section (JSON texts, claim values, the label) are
\* sequences of UTF-16 code units; base64 text is a sequence of characters.

\* the code unit of an ASCII character
asciiCode(c) ==
  CASE c = ":" -> 58
    [] c = "@" -> 64
    [] c = "." -> 46
    [] c = " " -> 32
    [] OTHER -> charCode(c)

ascii(s) == [i \in 1..Len(s) |-> asciiCode(s[i])]

\* the claims getUserLabel reads, in the order of its || chain
ClaimKeys ==
  << ascii(<<"n","a","m","e">>),
     ascii(<<"g","i","v","e","n","_","n","a","m","e">>),
     ascii(<<"e","m","a","i","l">>),
     ascii(<<"c","o","g","n","i","t","o",":","u","s","e","r","n","a","m","e">>),
     ascii(<<"p","r","e","f","e","r","r","e","d","_","u","s","e","r","n","a","m","e">>),
     ascii(<<"u","s","e","r","n","a","m","e">>) >>

\* value.padEnd(n, c)
padEnd(s, n, c) == s \o [i \in 1..(n - Len(s)) |-> c]

B64Index(c) == (CHOOSE k \in 1..64 : B64Alphabet[k] = c) - 1

\* the bytes of base64 data characters without padding: every four
\* characters give three bytes, a last group of two or three gives one or two
decodeChars(d) ==
  [i \in 1..((Len(d) * 3) \div 4) |->
     LET g == 4 * ((i - 1) \div 3)
         a == B64Index(d[g + 1])
         b == B64Index(d[g + 2])
     IN IF (i - 1) % 3 = 0 THEN a * 4 + b \div 16
        ELSE IF (i - 1) % 3 = 1
        THEN (b % 16) * 16 + B64Index(d[g + 3]) \div 4
        ELSE (B64Index(d[g + 3]) % 4) * 64 + B64Index(d[g + 4])]

\* atob(s): a binary string, one code unit per byte; it throws (ok = FALSE)
\* when, after dropping up to two '=' from a text whose length is a multiple
\* of 4, the length is 1 modulo 4 or a character is not in the alphabet
atob(s) ==
  LET n == Len(s)
      data == IF n % 4 = 0 /\ n >= 2 /\ s[n] = "=" /\ s[n - 1] = "="
              THEN SubSeq(s, 1, n - 2)
              ELSE IF n % 4 = 0 /\ n >= 1 /\ s[n] = "="
              THEN SubSeq(s, 1, n - 1)
              ELSE s
  IN IF Len(data) % 4 = 1
        \/ \E i \in 1..Len(data) : \A k \in 1..64 : B64Alphabet[k] # data[i]
     THEN [ok |-> FALSE]
     ELSE [ok |-> TRUE, value |-> decodeChars(data)]

base64UrlDecode(value) ==
  LET padded == padEnd(value, Len(value) + ((4 - (Len(value) % 4)) % 4), "=")
      normalized == replaceAll(replaceAll(padded, "-", "+"), "_", "/")
  IN atob(normalized)

\* s.split(sep)
RECURSIVE split(_, _)
split(s, sep) ==
  LET at == {i \in 1..Len(s) : s[i] = sep}
  IN IF at = {} THEN <<s>>
     ELSE LET i == CHOOSE k \in at : \A m \in at : k <= m
          IN <<SubSeq(s, 1, i - 1)>> \o split(SubSeq(s, i + 1, Len(s)), sep)

\* the position of the first '"' of t at or after i, 0 when there is none
nextQuote(t, i) ==
  LET q == {j \in i..Len(t) : t[j] = 34}
  IN IF q = {} THEN 0 ELSE CHOOSE j \in q : \A m \in q : j <= m

\* the members of a JSON object from position i of t, appended to acc
RECURSIVE parseMembers(_, _, _)
parseMembers(t, i, acc) ==
  IF i > Len(t) \/ t[i] # 34 THEN [ok |-> FALSE]
  ELSE LET k == nextQuote(t, i + 1)
       IN IF k = 0 \/ k + 2 > Len(t) \/ t[k + 1] # 58 \/ t[k + 2] # 34
          THEN [ok |-> FALSE]
          ELSE LET v == nextQuote(t, k + 3)
                   all == Append(acc, <<SubSeq(t, i + 1, k - 1),
                                        SubSeq(t, k + 3, v - 1)>>)
               IN IF v = 0 \/ v + 1 > Len(t) THEN [ok |-> FALSE]
                  ELSE IF t[v + 1] = 125 /\ v + 1 = Len(t)
                  THEN [ok |-> TRUE, value |-> all]
                  ELSE IF t[v + 1] = 44 THEN parseMembers(t, v + 2, all)
                  ELSE [ok |-> FALSE]

\* JSON.parse(t) for the texts considered: an object whose values are strings
\* without escapes is parsed into its members; the other texts considered
\* are not JSON and it throws (ok = FALSE)
JSONparse(t) ==
  IF \E i \in 1..Len(t) : t[i] < 32 \/ t[i] = 92 THEN [ok |-> FALSE]
  ELSE IF t = <<123, 125>> THEN [ok |-> TRUE, value |-> <<>>]
  ELSE IF Len(t) >= 2 /\ t[1] = 123 THEN parseMembers(t, 2, <<>>)
  ELSE [ok |-> FALSE]

\* decoded[key]: the value of the last member with that key; <<>> stands
\* for undefined as well as for ''
prop(decoded, key) ==
  LET at == {i \in 1..Len(decoded) : decoded[i][1] = key}
  IN IF at = {} THEN <<>>
     ELSE decoded[CHOOSE i \in at : \A m \in at : m <= i][2]

\* decoded.name || decoded.given_name || ... || '', from the n-th claim on
RECURSIVE firstClaim(_, _)
firstClaim(decoded, n) ==
  IF n > Len(ClaimKeys) THEN <<>>
  ELSE IF prop(decoded, ClaimKeys[n]) # <<>> THEN prop(decoded, ClaimKeys[n])
  ELSE firstClaim(decoded, n + 1)

\* getUserLabel from the split on: '' without a payload segment or when
\* decoding or parsing throws
decodeLabel(idToken) ==
  LET parts == split(idToken, ".")
      payload == IF Len(parts) >= 2 THEN parts[2] ELSE <<>>
  IN IF payload = <<>> THEN <<>>
     ELSE LET binary == base64UrlDecode(payload)
          IN IF ~binary.ok THEN <<>>
             ELSE LET decoded == JSONparse(binary.value)
                  IN IF ~decoded.ok THEN <<>>
                     ELSE firstClaim(decoded.value, 1)

----------------------------------------------------------------------------
(* Input domains *)

\* the UTF-8 bytes of a string whose code points are below 2048
RECURSIVE utf8(_)
utf8(s) ==
  IF Len(s) = 0 THEN <<>>
  ELSE IF Len(s) = 1
  THEN (IF s[1] < 128 THEN <<s[1]>>
        ELSE <<192 + (s[1] \div 64), 128 + (s[1] % 64)>>)
  ELSE utf8(SubSeq(s, 1, Len(s) \div 2))
       \o utf8(SubSeq(s, Len(s) \div 2 + 1, Len(s)))

jsonString(s) == <<34>> \o s \o <<34>>

RECURSIVE jsonMembers(_)
jsonMembers(doc) ==
  IF doc = <<>> THEN <<>>
  ELSE jsonString(doc[1][1]) \o <<58>> \o jsonString(doc[1][2])
       \o (IF Len(doc) = 1 THEN <<>> ELSE <<44>> \o jsonMembers(Tail(doc)))

\* the JSON text of an object given as its sequence of <<key, value>>
jsonText(doc) == <<123>> \o jsonMembers(doc) \o <<125>>

\* the ID token the identity provider issues for a payload: header, the
\* base64url of the UTF-8 bytes of the payload's JSON text, signature
issueIdToken(doc) ==
  <<"h", ".">> \o base64UrlEncode(utf8(jsonText(doc))) \o <<".", "s">>

\* a value for each claim of ClaimKeys: Ann, A, x@y.com, u1, ann1, u2
ClaimValues ==
  << ascii(<<"A","n","n">>),
     ascii(<<"A">>),
     ascii(<<"x","@","y",".","c","o","m">>),
     ascii(<<"u","1">>),
     ascii(<<"a","n","n","1">>),
     ascii(<<"u","2">>) >>

\* the payload with the claims K of 1..n, those of E with the value '',
\* its members in the reverse of the order of ClaimKeys
RECURSIVE claimsDoc(_, _, _)
claimsDoc(K, E, n) ==
  IF n = 0 THEN <<>>
  ELSE (IF n \in K
        THEN << <<ClaimKeys[n], IF n \in E THEN <<>> ELSE ClaimValues[n]>> >>
        ELSE <<>>) \o claimsDoc(K, E, n - 1)

\* the payloads considered: up to MaxClaims of the six claims, each with a
\* value or empty, and an email with a name that is not ASCII (Zoë)
LabelDocs ==
  {claimsDoc(K, E, 6) : K \in {X \in SUBSET (1..6) : Cardinality(X) <= MaxClaims},
                        E \in SUBSET (1..6)}
    \cup {<< <<ClaimKeys[3], ClaimValues[3]>>, <<ClaimKeys[1], <<90, 111, 235>> >> >>}

\* stored ID tokens getUserLabel cannot decode: no '.', an empty second
\* segment, a segment that is not base64, base64 of bytes that are not
\* JSON, base64 of a truncated JSON text
BrokenTokens ==
  { <<"h">>,
    <<"h", ".", ".", "s">>,
    <<"h", ".", "e", ".", "s">>,
    <<"h", ".", "A", "A", "A", "A", ".", "s">>,
    <<"h", ".">> \o base64UrlEncode(<<123, 34, 110>>) \o <<".", "s">> }

LabelTokens == {issueIdToken(d) : d \in LabelDocs} \cup BrokenTokens

\* the ID tokens of the sessions considered: one with name and email, one
\* with only an email
IdOld == issueIdToken(claimsDoc({1, 3}, {}, 6))
IdNew == issueIdToken(claimsDoc({3}, {}, 6))
IdTokens == {IdOld, IdNew}
AccessTokens == {<<"a", "t", "1">>}

\* decodeLabel of the ID tokens considered
UserLabelOf == [t \in LabelTokens \cup IdTokens |-> decodeLabel(t)]

\* getUserLabel() with localStorage = store
getUserLabel(store) ==
  IF ~Truthy(getItem(store, "cognito_id_token")) THEN <<>>
  ELSE UserLabelOf[store["cognito_id_token"]]

LocalStores ==
  {st \in UNION {[K -> IdTokens \cup AccessTokens] :
                   K \in SUBSET {"cognito_id_token", "cognito_access_token"}} :
     /\ hasItem(st, "cognito_id_token") => st["cognito_id_token"] \in IdTokens
     /\ hasItem(st, "cognito_access_token")
          => st["cognito_access_token"] \in AccessTokens}

SessionStores == UNION {[K -> Verifiers] : K \in SUBSET {CODE_VERIFIER_KEY}}

\* window.location.search as the provider (or the user) can make it
Searches ==
  {s \in UNION {[K -> {"", "code1", "access_denied"}] :
                  K \in SUBSET {"code", "error"}} :
     /\ hasItem(s, "code") => s["code"] \in {"", "code1"}
     /\ hasItem(s, "error") => s["error"] \in {"", "access_denied"}}

\* JSON bodies the token endpoint can answer with
TokenPayloads ==
  {p \in UNION {[K -> IdTokens \cup AccessTokens] :
                  K \in SUBSET {"id_token", "access_token"}} :
     /\ hasItem(p, "id_token") => p["id_token"] = IdNew
     /\ hasItem(p, "access_token") => p["access_token"] \in AccessTokens}

TokenBodies ==
  {[parsable |-> FALSE, payload |-> EmptyStore]}
    \cup {[parsable |-> TRUE, payload |-> p] : p \in TokenPayloads}

NoResult == [kind |-> "null"]
Files == {"clip.wav"}
Languages == {<<>>, <<" ", "e", "n">>}

\* bodies the transcription endpoint can answer with
Transcript == [kind |-> "transcript", text |-> "hello", language |-> "en"]
ErrorBodies == {[kind |-> "object", detail |-> d] : d \in {NULL, "", "file too large"}}
Unparsable == [kind |-> "unparsable"]
Bodies == {Unparsable, Transcript} \cup ErrorBodies

----------------------------------------------------------------------------
(* App: the auth gate *)

\* as hasConfig, testing the domain only
hasConfig_domainOnly == config.domain # <<>>

\* const hasConfig = Boolean(config.domain && config.clientId)
hasConfig == config.domain # <<>> /\ Truthy(config.clientId)

\* as Mounted, with DefaultApp rendered whatever authed is
Mounted_ungated == page = "loaded"

\* DefaultApp is rendered iff authed
Mounted == page = "loaded" /\ authed

\* the text of the "Auth error:" paragraph, "" when it is not rendered: the
\* paragraph is part of the auth gate, which is rendered iff not authed
shownAuthError ==
  IF page = "loaded" /\ ~authed /\ authError # "" THEN authError ELSE ""

FreshForm ==
  /\ file' = NULL
  /\ language' = <<>>
  /\ isSubmitting' = FALSE
  /\ error' = ""
  /\ result' = NoResult
  /\ resetSinceSubmit' = FALSE
  /\ previewUrl' = <<>>

\* the object URLs left after the cleanup of the preview effect has run:
\* return () => { URL.revokeObjectURL(url) }
revoked == objectUrls \ {previewUrl[k] : k \in 1..Len(previewUrl)}

\* URL.createObjectURL: a URL that is not in use
createObjectURL(urls) ==
  CHOOSE n \in 1..(MaxObjectUrls + 1) :
    n \notin urls /\ \A m \in 1..(n - 1) : m \in urls

\* as previewEffect, without the cleanup of the previous run
previewEffect_noRevoke(f) ==
  IF f = NULL
  THEN previewUrl' = <<>> /\ objectUrls' = objectUrls
  ELSE /\ Cardinality(objectUrls) < MaxObjectUrls
       /\ previewUrl' = <<createObjectURL(objectUrls)>>
       /\ objectUrls' = objectUrls \cup {createObjectURL(objectUrls)}

\* useEffect(..., [file]) of DefaultApp after file became f: the cleanup of
\* the previous run, then setPreviewUrl('') or a new object URL
previewEffect(f) ==
  IF f = NULL
  THEN previewUrl' = <<>> /\ objectUrls' = revoked
  ELSE /\ Cardinality(revoked) < MaxObjectUrls
       /\ previewUrl' = <<createObjectURL(revoked)>>
       /\ objectUrls' = revoked \cup {createObjectURL(revoked)}

\* the re-render after authed changed: DefaultApp is mounted with fresh state
\* or unmounted (its state is discarded; its fetches are not cancelled)
Render ==
  /\ IF authed' # authed THEN FreshForm
     ELSE UNCHANGED <<file, language, isSubmitting, error, result,
                      resetSinceSubmit, previewUrl>>
  /\ objectUrls' = IF authed /\ ~authed' THEN revoked ELSE objectUrls
  /\ formGen' = IF authed' /\ ~authed THEN formGen + 1 ELSE formGen
  /\ UNCHANGED requests

tokenRequest(cfg, code, verifier) ==
  [url |-> buildHostedUrl(cfg, "/oauth2/token"),
   body |-> [grant_type |-> "authorization_code",
             client_id |-> cfg.clientId,
             code |-> code,
             redirect_uri |-> cfg.redirectUri,
             code_verifier |-> verifier]]

\* as exchangeCodeForTokens, without the check of the verifier
exchangeCodeForTokens_noVerifierCheck(code) ==
  /\ exchange' = "fetch"
  /\ tokenRequests' =
       <<tokenRequest(config, code, getItem(sessionStorage, CODE_VERIFIER_KEY))>>

\* exchangeCodeForTokens up to its first await: throws when the verifier is
\* missing, else issues the POST to the token endpoint
exchangeCodeForTokens(code) ==
  IF ~Truthy(getItem(sessionStorage, CODE_VERIFIER_KEY))
  THEN /\ exchange' = "rejected"
       /\ tokenRequests' = <<>>
  ELSE /\ exchange' = "fetch"
       /\ tokenRequests' =
            <<tokenRequest(config, code, sessionStorage[CODE_VERIFIER_KEY])>>

\* .catch(() => setAuthError('Token exchange failed'))
\* .finally(() => history.replaceState(null, '', location.pathname))
catchFinally ==
  /\ authError' = "Token exchange failed"
  /\ search' = EmptyStore

\* as mountEffectBranch, looking at code before error
mountEffectBranch_codeFirst(s) ==
  IF Truthy(getItem(s, "code")) THEN "exchange"
  ELSE IF Truthy(getItem(s, "error")) THEN "error"
  ELSE "none"

\* the branch the mount effect takes: if (error) {...; return}
\* if (!code) return; exchangeCodeForTokens(...)
mountEffectBranch(s) ==
  IF Truthy(getItem(s, "error")) THEN "error"
  ELSE IF ~Truthy(getItem(s, "code")) THEN "none"
  ELSE "exchange"

\* first render of App and its mount effect
PageLoad(s) ==
  /\ page = "unloaded"
  /\ page' = "loaded"
  /\ authed' = isAuthenticated(localStorage)
  /\ userLabel' = IF authed' THEN getUserLabel(localStorage) ELSE <<>>
  /\ formGen' = IF authed' THEN 1 ELSE 0
  /\ FreshForm
  /\ objectUrls' = {}
  /\ IF mountEffectBranch(s) = "error"
     THEN /\ authError' = getItem(s, "error")
          /\ search' = s
          /\ exchange' = "idle"
          /\ tokenRequests' = <<>>
     ELSE IF mountEffectBranch(s) = "none"
     THEN /\ authError' = ""
          /\ search' = s
          /\ exchange' = "idle"
          /\ tokenRequests' = <<>>
     ELSE /\ exchangeCodeForTokens(getItem(s, "code"))
          /\ IF exchange' = "rejected"
             THEN catchFinally
             ELSE authError' = "" /\ search' = s
  /\ UNCHANGED <<config, localStorage, sessionStorage, loginCalls, navTarget,
                 requests>>

\* as ExchangeFetchSettles, removing the verifier when the exchange fails
ExchangeFetchSettles_dropVerifier(outcome) ==
  /\ page = "loaded"
  /\ exchange = "fetch"
  /\ tokenRequests' = <<>>
  /\ IF outcome = "ok"
     THEN /\ exchange' = "json"
          /\ UNCHANGED <<authError, search, sessionStorage>>
     ELSE /\ exchange' = "rejected"
          /\ sessionStorage' = removeItem(sessionStorage, CODE_VERIFIER_KEY)
          /\ catchFinally
  /\ UNCHANGED <<config, localStorage, page, authed, loginCalls, navTarget>>
  /\ UNCHANGED userLabel
  /\ UNCHANGED formVars

\* the token endpoint answers, or the request fails
ExchangeFetchSettles(outcome) ==
  /\ page = "loaded"
  /\ exchange = "fetch"
  /\ tokenRequests' = <<>>
  /\ IF outcome = "ok"
     THEN /\ exchange' = "json"
          /\ UNCHANGED <<authError, search>>
     ELSE \* fetch rejected, or !response.ok: throw new Error('Token exchange failed')
          /\ exchange' = "rejected"
          /\ catchFinally
  /\ UNCHANGED <<config, localStorage, sessionStorage, page, authed,
                 loginCalls, navTarget>>
  /\ UNCHANGED userLabel
  /\ UNCHANGED formVars

\* as storeTokens, keeping an ID token that is already stored
storeTokens_keepExisting(store, payload) ==
  LET s1 == IF Truthy(getItem(payload, "id_token"))
               /\ ~hasItem(store, "cognito_id_token")
            THEN setItem(store, "cognito_id_token", payload["id_token"])
            ELSE store
  IN IF Truthy(getItem(payload, "access_token"))
     THEN setItem(s1, "cognito_access_token", payload["access_token"])
     ELSE s1

\* if (payload.id_token) setItem(...); if (payload.access_token) setItem(...)
storeTokens(store, payload) ==
  LET s1 == IF Truthy(getItem(payload, "id_token"))
            THEN setItem(store, "cognito_id_token", payload["id_token"])
            ELSE store
  IN IF Truthy(getItem(payload, "access_token"))
     THEN setItem(s1, "cognito_access_token", payload["access_token"])
     ELSE s1

\* as didStoreOf, looking at the ID token only
didStoreOf_idOnly(payload) == Truthy(getItem(payload, "id_token"))

\* as didStoreOf, reporting a stored token for every parsed body
didStoreOf_always(payload) == TRUE

\* return Boolean(payload.id_token || payload.access_token)
didStoreOf(payload) ==
  Truthy(getItem(payload, "id_token")) \/ Truthy(getItem(payload, "access_token"))

\* response.json() settles: the rest of exchangeCodeForTokens and the
\* .then/.catch/.finally callbacks of the mount effect
ExchangeJsonSettles(body) ==
  /\ page = "loaded"
  /\ exchange = "json"
  /\ IF ~body.parsable
     THEN /\ exchange' = "rejected"
          /\ catchFinally
          /\ UNCHANGED <<localStorage, sessionStorage, authed, userLabel>>
     ELSE /\ localStorage' = storeTokens(localStorage, body.payload)
          /\ sessionStorage' = removeItem(sessionStorage, CODE_VERIFIER_KEY)
          /\ exchange' = "resolved"
          /\ IF didStoreOf(body.payload)
             THEN /\ authed' = TRUE
                  /\ authError' = ""
                  /\ userLabel' = getUserLabel(localStorage')
             ELSE UNCHANGED <<authed, authError, userLabel>>
          /\ search' = EmptyStore
  /\ Render
  /\ UNCHANGED <<config, page, tokenRequests, loginCalls, navTarget>>

\* as LogoutClick, leaving the access token in storage
LogoutClick_keepAccess ==
  /\ page = "loaded"
  /\ authed
  /\ localStorage' = removeItem(localStorage, "cognito_id_token")
  /\ authed' = FALSE
  /\ userLabel' = <<>>
  /\ navTarget' = IF hasConfig THEN <<buildLogoutUrl(config)>> ELSE navTarget
  /\ Render
  /\ UNCHANGED <<config, sessionStorage, page, search, authError, exchange,
                 tokenRequests, loginCalls>>

\* onClick of "Log out" (rendered while authed)
LogoutClick ==
  /\ page = "loaded"
  /\ authed
  /\ localStorage' =
       removeItem(removeItem(localStorage, "cognito_id_token"),
                  "cognito_access_token")
  /\ authed' = FALSE
  /\ userLabel' = <<>>
  /\ navTarget' = IF hasConfig THEN <<buildLogoutUrl(config)>> ELSE navTarget
  /\ Render
  /\ UNCHANGED <<config, sessionStorage, page, search, authError, exchange,
                 tokenRequests, loginCalls>>

\* onClick of "Log in with Cognito" (rendered while not authed):
\* buildLoginUrl up to its await; cryptoOk = FALSE when crypto.getRandomValues
\* or crypto.subtle is unavailable and the call rejects at once
LoginClick(bytes, cryptoOk) ==
  /\ page = "loaded"
  /\ ~authed
  /\ Len(loginCalls) < MaxLoginCalls
  /\ IF ~hasConfig
     THEN UNCHANGED <<loginCalls, authError>>
     ELSE IF ~cryptoOk
     THEN /\ authError' = "Unable to start login"
          /\ UNCHANGED loginCalls
     ELSE /\ loginCalls' = Append(loginCalls, randomVerifier(bytes))
          /\ UNCHANGED authError
  /\ UNCHANGED <<config, localStorage, sessionStorage, page, search, authed,
                 exchange, tokenRequests, navTarget>>
  /\ UNCHANGED userLabel
  /\ UNCHANGED formVars

RemoveAt(seq, i) == SubSeq(seq, 1, i - 1) \o SubSeq(seq, i + 1, Len(seq))

\* as DigestResolves, keeping a verifier that is already stored
DigestResolves_keepFirst(i) ==
  /\ page = "loaded"
  /\ i \in 1..Len(loginCalls)
  /\ sessionStorage' = IF hasItem(sessionStorage, CODE_VERIFIER_KEY)
                       THEN sessionStorage
                       ELSE setItem(sessionStorage, CODE_VERIFIER_KEY,
                                    loginCalls[i])
  /\ navTarget' = <<loginUrl(config, loginCalls[i])>>
  /\ loginCalls' = RemoveAt(loginCalls, i)
  /\ UNCHANGED <<config, localStorage, page, search, authed, authError,
                 exchange, tokenRequests>>
  /\ UNCHANGED userLabel
  /\ UNCHANGED formVars

\* the digest of call i resolves: the rest of buildLoginUrl, then
\* .then((url) => window.location.assign(url))
DigestResolves(i) ==
  /\ page = "loaded"
  /\ i \in 1..Len(loginCalls)
  /\ sessionStorage' = setItem(sessionStorage, CODE_VERIFIER_KEY, loginCalls[i])
  /\ navTarget' = <<loginUrl(config, loginCalls[i])>>
  /\ loginCalls' = RemoveAt(loginCalls, i)
  /\ UNCHANGED <<config, localStorage, page, search, authed, authError,
                 exchange, tokenRequests>>
  /\ UNCHANGED userLabel
  /\ UNCHANGED formVars

\* the document is torn down: a navigation started by location.assign
\* commits, or the user closes or reloads the tab; nothing of the page
\* survives but the two storage areas
Unload ==
  /\ page = "loaded"
  /\ page' = "unloaded"
  /\ search' = EmptyStore
  /\ authed' = FALSE
  /\ userLabel' = <<>>
  /\ authError' = ""
  /\ exchange' = "idle"
  /\ tokenRequests' = <<>>
  /\ loginCalls' = <<>>
  /\ navTarget' = <<>>
  /\ formGen' = 0
  /\ FreshForm
  /\ objectUrls' = {}
  /\ requests' = <<>>
  /\ UNCHANGED <<config, localStorage, sessionStorage>>

----------------------------------------------------------------------------
(* DefaultApp: the upload form *)

IsSpace(c) == c = " "

\* String.prototype.trim
RECURSIVE trim(_)
trim(s) ==
  IF Len(s) > 0 /\ IsSpace(s[1]) THEN trim(Tail(s))
  ELSE IF Len(s) > 0 /\ IsSpace(s[Len(s)]) THEN trim(SubSeq(s, 1, Len(s) - 1))
  ELSE s

\* the request handleSubmit sends: the language parameter is set only when
\* the trimmed hint is not empty
transcribeRequest(f, lang) ==
  [form |-> formGen,
   stage |-> "fetch",
   ok |-> FALSE,
   path |-> "/api/transcribe/segment",
   query |-> IF trim(lang) # <<>> THEN <<trim(lang)>> ELSE <<>>,
   file |-> f]

\* a state setter of DefaultApp called from the continuation of request r
\* takes effect only while the instance that sent r is still mounted
Live(r) == Mounted /\ r.form = formGen

\* as submitRejected, without the test of isSubmitting
submitRejected_noBusy == file = NULL

\* as submitRejected, without the test of file
submitRejected_noFile == isSubmitting

\* if (!file || isSubmitting) return
submitRejected == file = NULL \/ isSubmitting

\* as handleSubmit, without setError('')
handleSubmit_keepError ==
  /\ Mounted
  /\ IF submitRejected
     THEN UNCHANGED <<isSubmitting, error, result, requests, resetSinceSubmit>>
     ELSE /\ Len(requests) < MaxRequests
          /\ isSubmitting' = TRUE
          /\ result' = NoResult
          /\ requests' = Append(requests, transcribeRequest(file, language))
          /\ resetSinceSubmit' = FALSE
          /\ UNCHANGED error
  /\ UNCHANGED <<formGen, file, language, previewUrl, objectUrls>>
  /\ UNCHANGED authVars

\* onSubmit of the form
handleSubmit ==
  /\ Mounted
  /\ IF submitRejected
     THEN UNCHANGED <<isSubmitting, error, result, requests, resetSinceSubmit>>
     ELSE /\ Len(requests) < MaxRequests
          /\ isSubmitting' = TRUE
          /\ error' = ""
          /\ result' = NoResult
          /\ requests' = Append(requests, transcribeRequest(file, language))
          /\ resetSinceSubmit' = FALSE
  /\ UNCHANGED <<formGen, file, language, previewUrl, objectUrls>>
  /\ UNCHANGED authVars

\* the fetch of request i settles: outcome is "ok", "notok" (a response with
\* a non-2xx status) or "neterr" (fetch rejects)
TranscribeFetchSettles(i, outcome) ==
  /\ page = "loaded"
  /\ i \in 1..Len(requests)
  /\ requests[i].stage = "fetch"
  /\ IF outcome = "neterr"
     THEN \* catch: setError(err.message); finally: setIsSubmitting(false)
          /\ requests' = RemoveAt(requests, i)
          /\ IF Live(requests[i])
             THEN error' = "Failed to fetch" /\ isSubmitting' = FALSE
             ELSE UNCHANGED <<error, isSubmitting>>
     ELSE /\ requests' = [requests EXCEPT ![i].stage = "json",
                                          ![i].ok = (outcome = "ok")]
          /\ UNCHANGED <<error, isSubmitting>>
  /\ UNCHANGED <<formGen, file, language, result, resetSinceSubmit,
                 previewUrl, objectUrls>>
  /\ UNCHANGED authVars

\* as errorMessage, ignoring the body
errorMessage_generic(body) == "Transcription failed"

\* let message = 'Transcription failed'; if (payload.detail) message = payload.detail
errorMessage(body) ==
  IF body.kind = "object" /\ Truthy(body.detail)
  THEN body.detail
  ELSE "Transcription failed"

\* the status line of the form
statusMessage ==
  IF isSubmitting THEN "Transcribing..."
  ELSE IF error # "" THEN error
  ELSE IF result # NoResult THEN "Transcription complete"
  ELSE ""

\* as TranscribeJsonSettles, with setIsSubmitting(false) after the try block
\* instead of in finally: the return of the non-2xx branch skips it
TranscribeJsonSettles_noFinally(i, body) ==
  /\ page = "loaded"
  /\ i \in 1..Len(requests)
  /\ requests[i].stage = "json"
  /\ requests' = RemoveAt(requests, i)
  /\ IF ~Live(requests[i])
     THEN UNCHANGED <<error, result, isSubmitting>>
     ELSE IF ~requests[i].ok
     THEN error' = errorMessage(body) /\ UNCHANGED <<result, isSubmitting>>
     ELSE /\ isSubmitting' = FALSE
          /\ IF body.kind = "unparsable"
             THEN error' = "Unexpected end of JSON input" /\ UNCHANGED result
             ELSE result' = body /\ UNCHANGED error
  /\ UNCHANGED <<formGen, file, language, resetSinceSubmit, previewUrl,
                 objectUrls>>
  /\ UNCHANGED authVars

\* response.json() of request i settles: the rest of handleSubmit
TranscribeJsonSettles(i, body) ==
  /\ page = "loaded"
  /\ i \in 1..Len(requests)
  /\ requests[i].stage = "json"
  /\ requests' = RemoveAt(requests, i)
  /\ IF ~Live(requests[i])
     THEN UNCHANGED <<error, result, isSubmitting>>
     ELSE /\ isSubmitting' = FALSE
          /\ IF ~requests[i].ok
             THEN error' = errorMessage(body) /\ UNCHANGED result
             ELSE IF body.kind = "unparsable"
             THEN \* json() rejects with a SyntaxError, caught by the outer catch
                  error' = "Unexpected end of JSON input" /\ UNCHANGED result
             ELSE result' = body /\ UNCHANGED error
  /\ UNCHANGED <<formGen, file, language, resetSinceSubmit, previewUrl,
                 objectUrls>>
  /\ UNCHANGED authVars

\* as handleReset, also abandoning the requests of this form
handleReset_abort ==
  /\ Mounted
  /\ file' = NULL
  /\ language' = <<>>
  /\ error' = ""
  /\ result' = NoResult
  /\ resetSinceSubmit' = TRUE
  /\ previewEffect(NULL)
  /\ isSubmitting' = FALSE
  /\ requests' = SelectSeq(requests, LAMBDA r : r.form # formGen)
  /\ UNCHANGED formGen
  /\ UNCHANGED authVars

\* as handleReset, without setLanguage('')
handleReset_keepLanguage ==
  /\ Mounted
  /\ file' = NULL
  /\ error' = ""
  /\ result' = NoResult
  /\ resetSinceSubmit' = TRUE
  /\ previewEffect(NULL)
  /\ UNCHANGED <<formGen, language, isSubmitting, requests>>
  /\ UNCHANGED authVars

\* onClick of "Reset"; the file input's own value always equals file
handleReset ==
  /\ Mounted
  /\ file' = NULL
  /\ language' = <<>>
  /\ error' = ""
  /\ result' = NoResult
  /\ resetSinceSubmit' = TRUE
  /\ previewEffect(NULL)
  /\ UNCHANGED <<formGen, isSubmitting, requests>>
  /\ UNCHANGED authVars

\* onChange of the file input: f is the first selected file, or NULL
FileChange(f) ==
  /\ Mounted
  /\ file' = f
  /\ result' = NoResult
  /\ error' = ""
  /\ previewEffect(f)
  /\ UNCHANGED <<formGen, language, isSubmitting, requests, resetSinceSubmit>>
  /\ UNCHANGED authVars

\* onChange of the language input
LanguageChange(l) ==
  /\ Mounted
  /\ language' = l
  /\ UNCHANGED <<formGen, file, isSubmitting, error, result, requests,
                 resetSinceSubmit, previewUrl, objectUrls>>
  /\ UNCHANGED authVars

----------------------------------------------------------------------------
(* Specification *)

\* before the first page load: any storage content earlier sessions of the
\* application can have left behind
Init ==
  /\ config \in Configs
  /\ localStorage \in LocalStores
  /\ sessionStorage \in SessionStores
  /\ page = "unloaded"
  /\ search = EmptyStore
  /\ authed = FALSE
  /\ authError = ""
  /\ exchange = "idle"
  /\ tokenRequests = <<>>
  /\ loginCalls = <<>>
  /\ navTarget = <<>>
  /\ formGen = 0
  /\ file = NULL
  /\ language = <<>>
  /\ isSubmitting = FALSE
  /\ error = ""
  /\ result = NoResult
  /\ requests = <<>>
  /\ resetSinceSubmit = FALSE
  /\ previewUrl = <<>>
  /\ objectUrls = {}
  /\ userLabel = <<>>

Next ==
  \/ \E s \in Searches : PageLoad(s)
  \/ \E o \in {"ok", "notok", "neterr"} : ExchangeFetchSettles(o)
  \/ \E b \in TokenBodies : ExchangeJsonSettles(b)
  \/ LogoutClick
  \/ \E b \in RandomBytes, c \in BOOLEAN : LoginClick(b, c)
  \/ \E i \in 1..MaxLoginCalls : DigestResolves(i)
  \/ Unload
  \/ handleSubmit
  \/ \E i \in 1..MaxRequests, o \in {"ok", "notok", "neterr"} :
       TranscribeFetchSettles(i, o)
  \/ \E i \in 1..MaxRequests, b \in Bodies : TranscribeJsonSettles(i, b)
  \/ handleReset
  \/ \E f \in Files \cup {NULL} : FileChange(f)
  \/ \E l \in Languages : LanguageChange(l)

Spec == Init /\ [][Next]_vars

TypeOK ==
  /\ config \in Configs
  /\ localStorage \in LocalStores
  /\ sessionStorage \in SessionStores
  /\ page \in {"unloaded", "loaded"}
  /\ search \in Searches
  /\ authed \in BOOLEAN
  /\ exchange \in {"idle", "fetch", "json", "resolved", "rejected"}
  /\ Len(tokenRequests) <= 1
  /\ Len(loginCalls) <= MaxLoginCalls
  /\ Len(navTarget) <= 1
  /\ formGen \in 0..2
  /\ file \in Files \cup {NULL}
  /\ language \in Languages
  /\ isSubmitting \in BOOLEAN
  /\ Len(requests) <= MaxRequests
  /\ Len(previewUrl) <= 1
  /\ objectUrls \subseteq 1..MaxObjectUrls
  /\ userLabel = IF authed THEN getUserLabel(localStorage) ELSE <<>>

\* durable storage with each of the ID tokens of LabelTokens, or with an
\* access token and no ID token
LabelStores ==
  {[k \in {"cognito_id_token"} |-> t] : t \in LabelTokens}
    \cup {[k \in {"cognito_access_token"} |-> t] : t \in AccessTokens}

\* getUserLabel applied to the stored ID tokens of LabelStores: the page is
\* loaded without query, left, and loaded again
InitLabel ==
  /\ config \in Configs
  /\ localStorage \in LabelStores
  /\ sessionStorage = EmptyStore
  /\ page = "unloaded"
  /\ search = EmptyStore
  /\ authed = FALSE
  /\ authError = ""
  /\ exchange = "idle"
  /\ tokenRequests = <<>>
  /\ loginCalls = <<>>
  /\ navTarget = <<>>
  /\ formGen = 0
  /\ file = NULL
  /\ language = <<>>
  /\ isSubmitting = FALSE
  /\ error = ""
  /\ result = NoResult
  /\ requests = <<>>
  /\ resetSinceSubmit = FALSE
  /\ previewUrl = <<>>
  /\ objectUrls = {}
  /\ userLabel = <<>>

NextLabel ==
  \/ PageLoad(EmptyStore)
  \/ LogoutClick
  \/ Unload

SpecLabel == InitLabel /\ [][NextLabel]_vars

----------------------------------------------------------------------------
(* Properties *)

TokenPresent(store) ==
  hasItem(store, "cognito_id_token") \/ hasItem(store, "cognito_access_token")

ExchangeDone == exchange \in {"resolved", "rejected"}

\* C1: exchangeCodeForTokens called while session storage holds no PKCE
\* verifier signals failure (the exchange is rejected and the UI shows
\* 'Token exchange failed'), issues no request to the token endpoint and
\* leaves durable storage as it was.
C1_MissingVerifierFails ==
  [][\A s \in Searches :
       (/\ PageLoad(s)
        /\ mountEffectBranch(s) = "exchange"
        /\ ~Truthy(getItem(sessionStorage, CODE_VERIFIER_KEY)))
       => /\ exchange' = "rejected"
          /\ authError' = "Token exchange failed"
          /\ tokenRequests' = <<>>
          /\ localStorage' = localStorage]_vars

C1_Witness ==
  /\ page = "loaded"
  /\ exchange = "rejected"
  /\ ~hasItem(sessionStorage, CODE_VERIFIER_KEY)
  /\ authError = "Token exchange failed"
  /\ tokenRequests = <<>>

\* C2: when the token endpoint answers the exchange with success and an
\* id_token, then after the exchange completes durable storage holds exactly
\* that id_token under cognito_id_token and the session key
\* cognito_pkce_verifier is absent.
C2_ExchangeStoresIdToken ==
  [][\A b \in TokenBodies :
       (/\ ExchangeJsonSettles(b)
        /\ b.parsable
        /\ Truthy(getItem(b.payload, "id_token")))
       => /\ getItem(localStorage', "cognito_id_token") = b.payload["id_token"]
          /\ ~hasItem(sessionStorage', CODE_VERIFIER_KEY)]_vars

C2_Witness ==
  /\ page = "loaded"
  /\ exchange = "resolved"
  /\ hasItem(localStorage, "cognito_id_token")
  /\ localStorage["cognito_id_token"] = IdNew
  /\ ~hasItem(localStorage, "cognito_access_token")
  /\ ~hasItem(sessionStorage, CODE_VERIFIER_KEY)

\* C3: in every state of a page session, if cognito_id_token or
\* cognito_access_token is present in durable storage then isAuthenticated()
\* is true and the authed flag of the UI is set.
C3_TokensImplyAuthed ==
  (page = "loaded" /\ TokenPresent(localStorage))
    => (isAuthenticated(localStorage) /\ authed)

C3_Witness ==
  /\ page = "loaded"
  /\ exchange = "resolved"
  /\ hasItem(localStorage, "cognito_access_token")
  /\ ~hasItem(localStorage, "cognito_id_token")
  /\ authed

\* C4: every completed buildLoginUrl call returns an authorization URL that
\* carries code_challenge_method=S256 and a non-empty code_challenge equal
\* to base64url(SHA-256(v)), v being the verifier held in session storage
\* under cognito_pkce_verifier when the call returns.
S256Challenge ==
  [v \in Verifiers |->
     stripTrailingEq(replaceAll(replaceAll(
       btoa(SHA256(textEncode(v))), "+", "-"), "/", "_"))]

C4_ChallengeMatchesStoredVerifier ==
  [][\A i \in 1..MaxLoginCalls :
       DigestResolves(i)
       => /\ hasConfig
          /\ hasItem(sessionStorage', CODE_VERIFIER_KEY)
          /\ navTarget'[1].path = "/oauth2/authorize"
          /\ navTarget'[1].params.code_challenge_method = "S256"
          /\ navTarget'[1].params.code_challenge # <<>>
          /\ navTarget'[1].params.code_challenge
               = S256Challenge[sessionStorage'[CODE_VERIFIER_KEY]]
          /\ \A k \in 1..Len(navTarget'[1].params.code_challenge) :
               navTarget'[1].params.code_challenge[k] \notin {"+", "/", "="}]_vars

C4_Witness ==
  /\ page = "loaded"
  /\ navTarget # <<>>
  /\ navTarget[1].path = "/oauth2/authorize"
  /\ hasItem(sessionStorage, CODE_VERIFIER_KEY)
  /\ navTarget[1].params.code_challenge
       = base64UrlEncode(SHA256(textEncode(sessionStorage[CODE_VERIFIER_KEY])))
  /\ loginCalls # <<>>

\* C5: every code exchange started on page load ends with the UI
\* authenticated, or unauthenticated with a non-empty auth error, for every
\* answer of the token endpoint and every prior storage content.
C5_ExchangeEndsAuthedOrError ==
  [][(~ExchangeDone /\ ExchangeDone') => (authed' \/ authError' # "")]_vars

\* C6 as stated: on any page load whose URL has an error query parameter the
\* resulting state is unauthenticated with authError equal to that value and
\* no token exchange is attempted, whatever durable storage held.
C6_ErrorParamUnauthenticated ==
  [][\A s \in Searches :
       (PageLoad(s) /\ hasItem(s, "error"))
       => /\ ~authed'
          /\ authError' = s["error"]
          /\ exchange' = "idle"
          /\ tokenRequests' = <<>>]_vars

\* C6 (amended): on any page load whose URL has a non-empty error query
\* parameter, authError becomes that value and no token exchange is
\* attempted, even when a code parameter is present; the page is
\* unauthenticated exactly when durable storage held no token before the
\* load, and both storage areas are left as they were.
C6_ErrorParamNoExchange ==
  [][\A s \in Searches :
       (PageLoad(s) /\ Truthy(getItem(s, "error")))
       => /\ authed' = TokenPresent(localStorage)
          /\ authError' = s["error"]
          /\ exchange' = "idle"
          /\ tokenRequests' = <<>>
          /\ UNCHANGED <<localStorage, sessionStorage>>]_vars

C6_Witness ==
  /\ page = "loaded"
  /\ Truthy(getItem(search, "code"))
  /\ authError = "access_denied"
  /\ getItem(search, "error") = "access_denied"
  /\ hasItem(sessionStorage, CODE_VERIFIER_KEY)
  /\ exchange = "idle"
  /\ ~authed

\* C7: the logout action, taken from the authenticated state, leaves both
\* tokens absent from durable storage and the UI unauthenticated; with domain
\* and client id configured it then navigates to {domain}/logout with
\* client_id and logout_uri, and without them it performs no navigation.
C7_LogoutClearsAndNavigates ==
  [][LogoutClick
     => /\ ~hasItem(localStorage', "cognito_id_token")
        /\ ~hasItem(localStorage', "cognito_access_token")
        /\ ~authed'
        /\ IF config.domain # <<>> /\ config.clientId # ""
           THEN /\ Len(navTarget') = 1
                /\ navTarget'[1].path = "/logout"
                /\ navTarget'[1].base
                     \in {config.domain, <<"https://">> \o config.domain}
                /\ DOMAIN navTarget'[1].params = {"client_id", "logout_uri"}
                /\ navTarget'[1].params.client_id = config.clientId
                /\ navTarget'[1].params.logout_uri = config.logoutUri
           ELSE navTarget' = <<>>]_vars

C7_Witness ==
  /\ page = "loaded"
  /\ ~authed
  /\ ~TokenPresent(localStorage)
  /\ navTarget # <<>>
  /\ navTarget[1].path = "/logout"

RequestsOf(g) == {i \in 1..Len(requests) : requests[i].form = g}

\* C8: at most one transcription request of a form is in flight at any time,
\* and a submit event arriving while isSubmitting is set changes nothing.
C8_OneRequestPerForm ==
  /\ [](\A g \in 0..2 : Cardinality(RequestsOf(g)) <= 1)
  /\ [][(handleSubmit /\ isSubmitting) => UNCHANGED vars]_vars

C8_Witness ==
  /\ Mounted
  /\ isSubmitting
  /\ file # NULL
  /\ Cardinality(RequestsOf(formGen)) = 1

\* C9: submitting the form while no file is selected issues no request and
\* leaves error, result and isSubmitting (and all other state) unchanged.
C9_SubmitWithoutFileIsNoOp ==
  [][(handleSubmit /\ file = NULL) => UNCHANGED vars]_vars

C9_Witness ==
  /\ Mounted
  /\ file = NULL
  /\ error # ""
  /\ ~isSubmitting

\* C10: a stale response can be applied after a reset: reset leaves the
\* requests in flight and isSubmitting as they are, and the response to a
\* request of the mounted form sets result or error also when reset ran
\* after the submission and nothing was submitted since.
C10_ResetKeepsRequestInFlight ==
  [][/\ handleReset => UNCHANGED <<requests, isSubmitting>>
     /\ \A i \in 1..MaxRequests, b \in Bodies :
          (/\ TranscribeJsonSettles(i, b)
           /\ Live(requests[i])
           /\ resetSinceSubmit)
          => (result' # NoResult \/ error' # "")]_vars

C10_Witness ==
  /\ Mounted
  /\ resetSinceSubmit
  /\ file = NULL
  /\ result # NoResult
  /\ requests = <<>>

\* C18: at most one created object URL is unreleased at any time, it is the
\* one previewing the selected file, and none is unreleased once the form is
\* torn down
C18_ObjectUrlsReleased ==
  /\ Cardinality(objectUrls) <= 1
  /\ objectUrls = {previewUrl[k] : k \in 1..Len(previewUrl)}
  /\ (file = NULL) = (previewUrl = <<>>)
  /\ ~Mounted => objectUrls = {}

\* the form that sent a request with a file has been torn down
C18_Witness ==
  /\ page = "loaded"
  /\ ~authed
  /\ \E i \in 1..Len(requests) :
       requests[i].form = formGen /\ requests[i].file # NULL
  /\ objectUrls = {}

\* what a reset leaves alone: isSubmitting, the requests in flight, both
\* storage areas, the authenticated flag and the rest of the page
ResetFrame ==
  UNCHANGED <<isSubmitting, requests, localStorage, sessionStorage, authed,
              authError, config, page, search, exchange, tokenRequests,
              loginCalls, navTarget, formGen>>

\* C19 as stated: a reset clears file, language, error and result and changes
\* nothing else, the preview URL and the object URLs included
C19_ResetChangesNothingElse ==
  [][handleReset =>
       /\ file' = NULL /\ language' = <<>> /\ error' = "" /\ result' = NoResult
       /\ ResetFrame
       /\ UNCHANGED <<previewUrl, objectUrls>>]_vars

\* C19: a reset clears file, language, error and result, and with the file
\* its preview (previewUrl empty, its object URL released); isSubmitting, the
\* requests in flight, the stored tokens and authed are unchanged
C19_ResetClearsFormOnly ==
  [][handleReset =>
       /\ file' = NULL /\ language' = <<>> /\ error' = "" /\ result' = NoResult
       /\ previewUrl' = <<>> /\ objectUrls' = {}
       /\ ResetFrame]_vars

\* a reset has run while the request was in flight, which still is
C19_Witness ==
  /\ Mounted
  /\ resetSinceSubmit
  /\ isSubmitting
  /\ \E i \in 1..Len(requests) : requests[i].form = formGen
  /\ file = NULL /\ language = <<>> /\ previewUrl = <<>>
  /\ isAuthenticated(localStorage)

\* the form on the page has a request in flight
FormRequestInFlight == \E i \in 1..Len(requests) : requests[i].form = formGen

\* C11: isSubmitting is set only while the request of the form is in flight;
\* the step in which that request completes (success, non-2xx with or
\* without a parsable body, network failure) clears it; and a submission
\* with a file selected while isSubmitting is clear is accepted
C11_CompletionClearsSubmitting ==
  /\ [](Mounted /\ isSubmitting => FormRequestInFlight)
  /\ [][Mounted /\ Mounted' /\ formGen' = formGen
         /\ FormRequestInFlight /\ ~FormRequestInFlight'
         => ~isSubmitting']_vars
  /\ [][handleSubmit /\ file # NULL /\ ~isSubmitting
         => isSubmitting' /\ Len(requests') = Len(requests) + 1]_vars

\* a request of the form has failed, isSubmitting is clear again and the
\* file is still selected
C11_Witness ==
  /\ Mounted
  /\ ~isSubmitting
  /\ ~FormRequestInFlight
  /\ error \in {"Transcription failed", "Failed to fetch", "file too large"}
  /\ file # NULL
  /\ Len(requests) < MaxRequests

\* C12 as stated: when the token endpoint answers with a non-success status
\* the exchange is rejected, durable storage is unchanged, the verifier stays
\* in session storage and the page shows 'Token exchange failed'
C12_ExchangeFailureShown ==
  [][ExchangeFetchSettles("notok") =>
       /\ exchange' = "rejected"
       /\ localStorage' = localStorage
       /\ sessionStorage' = sessionStorage
       /\ hasItem(sessionStorage', CODE_VERIFIER_KEY)
       /\ shownAuthError' = "Token exchange failed"]_vars

\* C12: when the token endpoint answers with a non-success status the
\* exchange is rejected, durable storage is unchanged, the verifier stays in
\* session storage and authError becomes 'Token exchange failed', which the
\* page shows iff it is unauthenticated
C12_ExchangeFailureStoresNothing ==
  [][ExchangeFetchSettles("notok") =>
       /\ exchange' = "rejected"
       /\ localStorage' = localStorage
       /\ sessionStorage' = sessionStorage
       /\ hasItem(sessionStorage', CODE_VERIFIER_KEY)
       /\ authError' = "Token exchange failed"
       /\ authed' = authed
       /\ shownAuthError' = IF authed THEN "" ELSE "Token exchange failed"]_vars

\* the exchange has failed on a page that stayed unauthenticated; the
\* verifier is still stored
C12_Witness ==
  /\ exchange = "rejected"
  /\ shownAuthError = "Token exchange failed"
  /\ hasItem(sessionStorage, CODE_VERIFIER_KEY)
  /\ ~TokenPresent(localStorage)

\* C13: when the body of a non-2xx transcription response has been read, the
\* form that sent the request shows exactly the detail of a parsed body with
\* a non-empty detail, and 'Transcription failed' for a body that cannot be
\* parsed or has no detail; in both cases result is and stays empty
C13_FailureMessage ==
  [][\A i \in 1..Len(requests) : \A b \in Bodies :
       TranscribeJsonSettles(i, b) /\ Live(requests[i]) /\ ~requests[i].ok
       => /\ error' = IF b.kind = "object" /\ b.detail \notin {NULL, ""}
                      THEN b.detail ELSE "Transcription failed"
          /\ statusMessage' = error'
          /\ result = NoResult /\ result' = NoResult]_vars

\* the form shows the detail of a failed response, and no result
C13_Witness ==
  /\ Mounted
  /\ statusMessage = "file too large"
  /\ result = NoResult
  /\ ~FormRequestInFlight

\* C14: a transcription request is started only by a step that begins and
\* ends with the page loaded and authenticated
C14_RequestOnlyWhenAuthed ==
  [][Len(requests') > Len(requests)
     => page = "loaded" /\ authed /\ authed']_vars

\* a transcription request has been started and the page is authenticated
C14_Witness ==
  /\ Mounted
  /\ isSubmitting
  /\ \E i \in 1..Len(requests) :
       requests[i].form = formGen /\ requests[i].stage = "fetch"

\* the build has an empty Cognito domain or an empty client id
Unconfigured == config.domain = <<>> \/ config.clientId = ""

\* C15: with an empty domain or client id no step, a login click included,
\* starts buildLoginUrl, stores a verifier in session storage or sets a
\* navigation target
C15_NoLoginWithoutConfig ==
  [][Unconfigured =>
       /\ loginCalls' = <<>>
       /\ navTarget' = <<>>
       /\ sessionStorage' = sessionStorage
          \/ ~hasItem(sessionStorage', CODE_VERIFIER_KEY)
       /\ \A b \in RandomBytes : \A c \in BOOLEAN :
            LoginClick(b, c) => UNCHANGED vars]_vars

\* the auth gate of an unconfigured build, where the login button is
C15_Witness ==
  /\ Unconfigured
  /\ page = "loaded"
  /\ ~authed
  /\ exchange = "idle"
  /\ navTarget = <<>>
  /\ ~hasItem(sessionStorage, CODE_VERIFIER_KEY)

\* C16: session storage holds at most one verifier, under the one key; a
\* buildLoginUrl call that completes leaves its own verifier there, also
\* when an earlier or a later call had stored one; and no other step changes
\* the stored verifier, except that the exchange removes it
C16_OneVerifierLatestCall ==
  /\ [](DOMAIN sessionStorage \subseteq {CODE_VERIFIER_KEY})
  /\ [][\A i \in 1..Len(loginCalls) :
          loginCalls' = RemoveAt(loginCalls, i) /\ page' = "loaded"
          => /\ hasItem(sessionStorage', CODE_VERIFIER_KEY)
             /\ sessionStorage'[CODE_VERIFIER_KEY] = loginCalls[i]]_vars
  /\ [][sessionStorage' # sessionStorage
        => \/ ~hasItem(sessionStorage', CODE_VERIFIER_KEY)
           \/ \E i \in 1..Len(loginCalls) :
                loginCalls' = RemoveAt(loginCalls, i)]_vars

\* of two overlapping login initiations one has completed and stored its
\* verifier, the other, with another verifier, is at the digest
C16_Witness ==
  /\ page = "loaded"
  /\ Len(loginCalls) = 1
  /\ navTarget # <<>>
  /\ hasItem(sessionStorage, CODE_VERIFIER_KEY)
  /\ sessionStorage[CODE_VERIFIER_KEY] # loginCalls[1]
  /\ navTarget[1].path = "/oauth2/authorize"
  /\ navTarget[1].params.code_challenge
       = S256Challenge[sessionStorage[CODE_VERIFIER_KEY]]

\* C20: when the page is left for an authorization URL, session storage
\* holds a verifier and its S256 challenge is the code_challenge of that URL
C20_NavigationMatchesVerifier ==
  [][/\ page = "loaded" /\ page' = "unloaded"
     /\ navTarget # <<>>
     /\ navTarget[1].path = "/oauth2/authorize"
     => /\ hasItem(sessionStorage, CODE_VERIFIER_KEY)
        /\ S256Challenge[sessionStorage[CODE_VERIFIER_KEY]]
             = navTarget[1].params.code_challenge]_vars

\* the first claim of a payload, in the order of ClaimKeys, whose value is
\* not empty; '' when there is none
ExpectedLabel(doc) ==
  LET at(n) == {i \in 1..Len(doc) : doc[i][1] = ClaimKeys[n] /\ doc[i][2] # <<>>}
      first == {n \in 1..Len(ClaimKeys) :
                  at(n) # {} /\ \A m \in 1..(n - 1) : at(m) = {}}
  IN IF first = {} THEN <<>>
     ELSE doc[CHOOSE i \in at(CHOOSE n \in first : TRUE) : TRUE][2]

ExpectedLabels == [d \in LabelDocs |-> [token |-> issueIdToken(d),
                                        label |-> ExpectedLabel(d)]]

\* C17: on a loaded, authenticated page the user label is the first
\* non-empty claim of the stored ID token's payload in the order name,
\* given_name, email, cognito:username, preferred_username, username; it is
\* '' when no ID token is stored, when the token has no payload segment and
\* when the payload cannot be decoded; a payload with only an email gives
\* that email
C17_UserLabelIsFirstClaim ==
  page = "loaded" /\ authed =>
    /\ ~hasItem(localStorage, "cognito_id_token") => userLabel = <<>>
    /\ hasItem(localStorage, "cognito_id_token") =>
         /\ \A t \in BrokenTokens :
              localStorage["cognito_id_token"] = t => userLabel = <<>>
         /\ \A d \in LabelDocs :
              localStorage["cognito_id_token"] = ExpectedLabels[d].token
              => userLabel = ExpectedLabels[d].label
         /\ localStorage["cognito_id_token"] = IdNew
            => userLabel = ascii(<<"x", "@", "y", ".", "c", "o", "m">>)

\* C21: in every state, if the authed flag is set then cognito_id_token or
\* cognito_access_token is present in durable storage, with a non-empty value
C21_AuthedImpliesToken ==
  authed => TokenPresent(localStorage) /\ isAuthenticated(localStorage)

\* an exchange has resolved, both tokens are stored, authed is set and the
\* form is in use
C21_Witness ==
  /\ page = "loaded"
  /\ exchange = "resolved"
  /\ authed
  /\ hasItem(localStorage, "cognito_id_token")
  /\ hasItem(localStorage, "cognito_access_token")
  /\ formGen = 1
  /\ file # NULL

\* C22: while the form is on the page at most one of these holds:
\* isSubmitting, error is not empty, result is not null
C22_OneStatusAtATime ==
  Mounted =>
    /\ ~(isSubmitting /\ error # "")
    /\ ~(isSubmitting /\ result # NoResult)
    /\ ~(error # "" /\ result # NoResult)

\* a result is shown for the selected file after an earlier request of the
\* page has ended, no reset in between
C22_Witness ==
  /\ Mounted
  /\ ~isSubmitting
  /\ error = ""
  /\ result # NoResult
  /\ file # NULL
  /\ ~resetSinceSubmit
====
